---- MODULE Spec2Model ----
(***************************************************************************)
(* Maze search of rhysbw/AIcourseworkECM2423: depth-first, breadth-first   *)
(* and A* search over a grid maze (mazeSearchNOIMAGE.py, mazeSearch.py,    *)
(* DepthFirst.py).  Cells are <<row, col>> with the 0-based indices of the *)
(* Python code; the maze is a sequence of rows, each a sequence of the     *)
(* one-character symbols "-", "." and "#".                                 *)
(***************************************************************************)
EXTENDS Integers, Sequences, FiniteSets, TLC

\* ------------------------------------------------------------------ bounds
\* Largest maze of the specification Spec: at most MaxRows rows of at most
\* MaxCols symbols, at most MaxCells cells in all.
MaxRows == 4
MaxCols == 3
MaxCells == 12
\* Largest maze of the specification FairSpec: at most MaxFairCells cells.
MaxFairCells == 8
\* Largest maze of the specification SpecMain, whose mazes need not satisfy
\* the input contract: at most MaxAnyRows rows of 0..MaxAnyCols symbols.
MaxAnyRows == 2
MaxAnyCols == 2
\* Cap on the expansion counter (no run of the code reaches it within the
\* bounds above; it only keeps a non-terminating variant finite).
MaxExplored == 40

VARIABLES
    maze,          \* the maze read by read_maze_file
    start,         \* start cell, or NoCell before find_start_and_goal
    goal,          \* goal cell, or NoCell before find_start_and_goal
    algorithm,     \* the search function that is run
    pc,            \* "main", "search", "found", "exhausted", "error" (uncaught
                   \* exception) or "hang" (reveal_path never ends)
    exc,           \* name of the uncaught exception when pc = "error"
    frontier,      \* the stack / queue of cells of the uninformed searches
    heap,          \* the heap of <<cost, cell>> tuples of a_star_search
    visitedNodes,  \* the set visitedNodes / visited
    parent,        \* the dict parent
    costPath,      \* the dict costPath (A* only)
    nodesExplored, \* the counter nodesExplored
    currentCost,   \* the local currentCost of a_star_search (key of the popped tuple)
    expanded,      \* history: the values of current, in the order they were popped
    path,          \* the returned path; NoPath stands for None
    run,           \* number of the run of the search on this maze (1 or 2)
    prevPath,      \* path returned by the previous run
    prevExplored   \* nodesExplored returned by the previous run

vars == <<maze, start, goal, algorithm, pc, exc, frontier, heap, visitedNodes, parent,
          costPath, nodesExplored, currentCost, expanded, path, run, prevPath,
          prevExplored>>

NoCell == <<>>
NoPath == <<>>
EmptyDict == [x \in {} |-> x]

Algorithms == {"depth_first_search", "breadth_first_search", "a_star_search", "bfs", "dfs"}

Range(s) == {s[i] : i \in DOMAIN s}

Abs(x) == IF x < 0 THEN -x ELSE x

\* --------------------------------------------------------------- the mazes
Symbols == {"-", ".", "#"}

\* Rows of width w with exactly one marker "-".
MarkerRows(w) ==
    {[c \in 1..w |-> IF c = k THEN "-" ELSE plain[c]] :
        k \in 1..w, plain \in [1..w -> {".", "#"}]}

\* Rows of width w of wall and passable symbols only.
PlainRows(w) == [1..w -> {".", "#"}]

\* Mazes of h rows and w columns that meet the input contract: exactly one
\* marker in the first row and one in the last row.
ContractGrids(h, w) ==
    IF h = 1
    THEN {<<r>> : r \in MarkerRows(w)}
    ELSE {[i \in 1..h |-> IF i = 1 THEN top ELSE IF i = h THEN bottom ELSE mid[i]] :
             top \in MarkerRows(w), bottom \in MarkerRows(w),
             mid \in [2..(h - 1) -> PlainRows(w)]}

\* Any sequence of at most MaxAnyRows rows, each of 0..MaxAnyCols symbols.
AnyRows == UNION {[1..w -> Symbols] : w \in 0..MaxAnyCols}
AnyGrids == UNION {[1..h -> AnyRows] : h \in 0..MaxAnyRows}

\* ------------------------------------------------------- helper functions
\* Python's list.index: position (0-based) of the first "-" in the row, or -1
\* for the ValueError raised when there is none.
IndexOfMarker(row) ==
    IF \E i \in DOMAIN row : row[i] = "-"
    THEN (CHOOSE i \in DOMAIN row : row[i] = "-" /\ \A j \in 1..(i - 1) : row[j] # "-") - 1
    ELSE -1

\* find_start_and_goal: <<start, goal>>, or <<>> for the None returned when an
\* exception (IndexError on an empty maze, ValueError on a missing marker) is
\* caught.
find_start_and_goal(m) ==
    IF Len(m) = 0 THEN <<>>
    ELSE IF IndexOfMarker(m[1]) < 0 \/ IndexOfMarker(m[Len(m)]) < 0 THEN <<>>
    ELSE << <<0, IndexOfMarker(m[1])>>, <<Len(m) - 1, IndexOfMarker(m[Len(m)])>> >>

\* The bounds test of is_valid_location (uses the width of the first row).
InRange(m, location) ==
    ~ (location[1] < 0 \/ location[1] >= Len(m)
       \/ location[2] < 0 \/ location[2] >= Len(m[1]))

\* maze[row][col] of is_valid_location raises IndexError when the row is
\* shorter than the first row.
LocationRaises(m, location) ==
    InRange(m, location) /\ location[2] >= Len(m[location[1] + 1])

\* is_valid_location without its wall test.
is_valid_location_nowall(m, location) == InRange(m, location)

is_valid_location(m, location) ==
    IF ~ InRange(m, location) THEN FALSE
    ELSE IF m[location[1] + 1][location[2] + 1] = "#" THEN FALSE
    ELSE TRUE

\* The list adjacent of get_valid_adjacent: up, right, down, left.
adjacent(location) ==
    << <<location[1] - 1, location[2]>>, <<location[1], location[2] + 1>>,
       <<location[1] + 1, location[2]>>, <<location[1], location[2] - 1>> >>

AdjacentRaises(m, location) ==
    \E i \in 1..4 : LocationRaises(m, adjacent(location)[i])

get_valid_adjacent(m, location) ==
    SelectSeq(adjacent(location), LAMBDA n : is_valid_location(m, n))

\* The loop of reveal_path: cells from current back to (excluding) s, in the
\* order they are appended.  fuel bounds the walk: a chain longer than the
\* number of keys of par repeats a cell and never ends.
RECURSIVE Backtrack(_, _, _, _)
Backtrack(current, s, par, fuel) ==
    IF current = s THEN [status |-> "ok", cells |-> <<>>]
    ELSE IF current \notin DOMAIN par THEN [status |-> "KeyError", cells |-> <<>>]
    ELSE IF fuel = 0 THEN [status |-> "loop", cells |-> <<>>]
    ELSE LET rest == Backtrack(par[current], s, par, fuel - 1)
         IN  [status |-> rest.status, cells |-> <<current>> \o rest.cells]

Reverse(s) == [i \in 1..Len(s) |-> s[Len(s) + 1 - i]]

\* reveal_path without path.reverse().
reveal_path_unreversed(current, s, par) ==
    LET walk == Backtrack(current, s, par, Cardinality(DOMAIN par))
    IN  [status |-> walk.status, path |-> walk.cells \o <<s>>]

reveal_path(current, s, par) ==
    LET walk == Backtrack(current, s, par, Cardinality(DOMAIN par))
    IN  [status |-> walk.status, path |-> Reverse(walk.cells \o <<s>>)]

heuristic_cost(node, g) == Abs(node[1] - g[1]) + Abs(node[2] - g[2])

\* ------------------------------------------------------- frontier access
\* list.pop(): the most recently appended cell.
stack_pop(s) == [item |-> s[Len(s)], rest |-> SubSeq(s, 1, Len(s) - 1)]

\* A deque popped at the wrong end (deque.pop()).
queue_pop(q) == [item |-> q[Len(q)], rest |-> SubSeq(q, 1, Len(q) - 1)]

\* deque.popleft(): the earliest appended cell.
queue_popleft(q) == [item |-> Head(q), rest |-> Tail(q)]

\* Python's comparison of the heap's tuples (cost, (row, col)).
TupleLess(a, b) ==
    \/ a[1] < b[1]
    \/ a[1] = b[1] /\ a[2][1] < b[2][1]
    \/ a[1] = b[1] /\ a[2][1] = b[2][1] /\ a[2][2] < b[2][2]

\* A heap that breaks ties on the cost by insertion order: the earliest pushed
\* tuple of least cost is popped.
HeapMinFifo(h) ==
    {i \in DOMAIN h : /\ \A j \in DOMAIN h : h[j][1] >= h[i][1]
                      /\ \A j \in 1..(i - 1) : h[j][1] # h[i][1]}

\* A heap ordered by the cost alone: any tuple of least cost may be popped.
HeapMinCostOnly(h) == {i \in DOMAIN h : \A j \in DOMAIN h : h[j][1] >= h[i][1]}

\* The positions heapq.heappop may take its result from: the heap is kept as
\* the sequence of pushed tuples, heappop returns the smallest tuple (equal
\* tuples are the same value; the first of them is the one removed).
HeapMin(h) ==
    {i \in DOMAIN h : /\ \A j \in DOMAIN h : ~ TupleLess(h[j], h[i])
                      /\ \A j \in 1..(i - 1) : h[j] # h[i]}

heappop(h, i) ==
    [item |-> h[i], rest |-> SubSeq(h, 1, i - 1) \o SubSeq(h, i + 1, Len(h))]

\* An iteration that does not count its expansion.
CountExpansionNot(n) == n

\* nodesExplored += 1
CountExpansion(n) == n + 1

\* A loop without the test "if n not in visitedNodes".
UnvisitedNoTest(ns, visited) == ns

\* The neighbours that pass "if n not in visitedNodes".
Unvisited(ns, visited) == SelectSeq(ns, LAMBDA n : n \notin visited)

\* parent[n] = current for every pushed neighbour n.
SetParents(par, ns, current) ==
    [n \in DOMAIN par \cup Range(ns) |-> IF n \in Range(ns) THEN current ELSE par[n]]

\* An admission test that lets every neighbour in.
AStarAdmitAll(n, newCost, visited, cost) == TRUE

\* The admission test of a_star_search for neighbour n.
AStarAdmit(n, newCost, visited, cost) == n \notin visited \/ newCost < cost[n]

\* The for loop of a_star_search over the neighbours ns of current, from the
\* state st = [heap, cost, par, status]; status "KeyError" when a read of
\* costPath fails.
RECURSIVE AStarRelax(_, _, _, _, _)
AStarRelax(ns, current, g, visited, st) ==
    IF ns = <<>> \/ st.status # "ok" THEN st
    ELSE LET n == Head(ns)
         IN  IF current \notin DOMAIN st.cost \/ (n \in visited /\ n \notin DOMAIN st.cost)
             THEN [st EXCEPT !.status = "KeyError"]
             ELSE LET newCost == st.cost[current] + 1
                  IN  IF AStarAdmit(n, newCost, visited, st.cost)
                      THEN AStarRelax(Tail(ns), current, g, visited,
                               [heap   |-> Append(st.heap, <<newCost + heuristic_cost(n, g), n>>),
                                cost   |-> (n :> newCost) @@ st.cost,
                                par    |-> (n :> current) @@ st.par,
                                status |-> "ok"])
                      ELSE AStarRelax(Tail(ns), current, g, visited, st)

\* ------------------------------------------------------------ the program
\* The state before find_start_and_goal, the maze being read.
Loaded ==
    /\ start = NoCell /\ goal = NoCell
    /\ algorithm = "" /\ pc = "main" /\ exc = ""
    /\ frontier = <<>> /\ heap = <<>> /\ visitedNodes = {}
    /\ parent = EmptyDict /\ costPath = EmptyDict
    /\ nodesExplored = 0 /\ path = NoPath
    /\ currentCost = 0 /\ expanded = <<>>
    /\ run = 1 /\ prevPath = NoPath /\ prevExplored = 0

Init ==
    /\ \E h \in 1..MaxRows, w \in 1..MaxCols :
          /\ h * w <= MaxCells
          /\ maze \in ContractGrids(h, w)
    /\ Loaded

InitFair ==
    /\ \E h \in 1..MaxRows, w \in 1..MaxCols :
          /\ h * w <= MaxFairCells
          /\ maze \in ContractGrids(h, w)
    /\ Loaded

InitMain ==
    /\ maze \in AnyGrids
    /\ Loaded

\* The first lines of a search function with costPath = {} in place of
\* costPath = {start: 0}.
EnterSearchNoCost(alg, s) ==
    /\ frontier' = IF alg = "a_star_search" THEN <<>> ELSE <<s>>
    /\ heap' = IF alg = "a_star_search" THEN << <<0, s>> >> ELSE <<>>
    /\ visitedNodes' = {}
    /\ parent' = EmptyDict
    /\ costPath' = EmptyDict
    /\ nodesExplored' = 0
    /\ currentCost' = 0
    /\ expanded' = <<>>
    /\ path' = NoPath
    /\ pc' = "search"

\* The first lines of a search function: the frontier holds the start, the
\* other structures are empty.
EnterSearch(alg, s) ==
    /\ frontier' = IF alg = "a_star_search" THEN <<>> ELSE <<s>>
    /\ heap' = IF alg = "a_star_search" THEN << <<0, s>> >> ELSE <<>>
    /\ visitedNodes' = {}
    /\ parent' = EmptyDict
    /\ costPath' = IF alg = "a_star_search" THEN (s :> 0) ELSE EmptyDict
    /\ nodesExplored' = 0
    /\ currentCost' = 0
    /\ expanded' = <<>>
    /\ path' = NoPath
    /\ pc' = "search"

\* __main__: find_start_and_goal, then the chosen search function is called.
\* When find_start_and_goal returns None the unpacking raises TypeError.
Main ==
    /\ pc = "main"
    /\ LET sg == find_start_and_goal(maze)
       IN  IF sg = <<>>
           THEN /\ pc' = "error" /\ exc' = "TypeError"
                /\ UNCHANGED <<start, goal, algorithm, frontier, heap, visitedNodes, parent,
                               costPath, nodesExplored, currentCost, expanded, path>>
           ELSE \E alg \in Algorithms :
                   /\ start' = sg[1] /\ goal' = sg[2]
                   /\ algorithm' = alg
                   /\ EnterSearch(alg, sg[1])
                   /\ UNCHANGED exc
    /\ UNCHANGED <<maze, run, prevPath, prevExplored>>

\* The goal was popped: reveal_path and return.
ReturnPath(current, visited) ==
    LET r == reveal_path(current, start, parent)
    IN  /\ visitedNodes' = visited
        /\ path' = IF r.status = "ok" THEN r.path ELSE NoPath
        /\ pc' = IF r.status = "ok" THEN "found"
                 ELSE IF r.status = "KeyError" THEN "error" ELSE "hang"
        /\ exc' = IF r.status = "KeyError" THEN "KeyError" ELSE exc
        /\ UNCHANGED <<parent, costPath>>

\* get_valid_adjacent raised IndexError (a row shorter than the first one).
RaiseIndexError(visited) ==
    /\ visitedNodes' = visited
    /\ pc' = "error" /\ exc' = "IndexError"
    /\ UNCHANGED <<parent, costPath, path>>

\* One iteration of the while loop of the depth-first and breadth-first
\* functions, p being the popped entry; markOnDiscovery tells the DepthFirst.py
\* variants, which add a neighbour to visited when they push it.  The loop
\* test that follows the iteration is part of it: an empty frontier returns None.
UninformedStep(p, markOnDiscovery) ==
    /\ nodesExplored < MaxExplored
    /\ nodesExplored' = CountExpansion(nodesExplored)
    /\ expanded' = Append(expanded, p.item)
    /\ LET current == p.item
           visited == visitedNodes \cup {current}
       IN  IF current = goal THEN frontier' = p.rest /\ ReturnPath(current, visited)
           ELSE IF AdjacentRaises(maze, current)
           THEN frontier' = p.rest /\ RaiseIndexError(visited)
           ELSE LET new == Unvisited(get_valid_adjacent(maze, current), visited)
                IN  /\ frontier' = p.rest \o new
                    /\ visitedNodes' = IF markOnDiscovery THEN visited \cup Range(new)
                                       ELSE visited
                    /\ parent' = SetParents(parent, new, current)
                    /\ pc' = IF p.rest \o new = <<>> THEN "exhausted" ELSE "search"
                    /\ UNCHANGED <<costPath, path, exc>>
    /\ UNCHANGED <<maze, start, goal, algorithm, heap, currentCost, run, prevPath,
                   prevExplored>>

depth_first_search ==
    /\ pc = "search" /\ algorithm = "depth_first_search"
    /\ UninformedStep(stack_pop(frontier), FALSE)

breadth_first_search ==
    /\ pc = "search" /\ algorithm = "breadth_first_search"
    /\ UninformedStep(queue_popleft(frontier), FALSE)

bfs ==
    /\ pc = "search" /\ algorithm = "bfs"
    /\ UninformedStep(queue_popleft(frontier), TRUE)

dfs ==
    /\ pc = "search" /\ algorithm = "dfs"
    /\ UninformedStep(stack_pop(frontier), TRUE)

\* One iteration of the while loop of a_star_search.
a_star_search ==
    /\ pc = "search" /\ algorithm = "a_star_search"
    /\ nodesExplored < MaxExplored
    /\ nodesExplored' = CountExpansion(nodesExplored)
    /\ \E i \in HeapMin(heap) :
          LET p == heappop(heap, i)
              current == p.item[2]
              visited == visitedNodes \cup {current}
          IN  /\ currentCost' = p.item[1]
              /\ expanded' = Append(expanded, current)
              /\ IF current = goal THEN heap' = p.rest /\ ReturnPath(current, visited)
                 ELSE IF AdjacentRaises(maze, current)
                 THEN heap' = p.rest /\ RaiseIndexError(visited)
                 ELSE LET st == AStarRelax(get_valid_adjacent(maze, current), current, goal,
                                           visited,
                                           [heap |-> p.rest, cost |-> costPath,
                                            par |-> parent, status |-> "ok"])
                      IN  /\ heap' = st.heap
                          /\ visitedNodes' = visited
                          /\ parent' = st.par
                          /\ costPath' = st.cost
                          /\ pc' = IF st.status # "ok" THEN "error"
                                   ELSE IF st.heap = <<>> THEN "exhausted" ELSE "search"
                          /\ exc' = IF st.status # "ok" THEN st.status ELSE exc
                          /\ UNCHANGED path
    /\ UNCHANGED <<maze, start, goal, algorithm, frontier, run, prevPath, prevExplored>>

\* The same search function is called again on the same maze, start and goal;
\* the first result is kept for comparison.
Rerun ==
    /\ pc \in {"found", "exhausted"}
    /\ run = 1
    /\ run' = 2
    /\ prevPath' = path
    /\ prevExplored' = nodesExplored
    /\ EnterSearch(algorithm, start)
    /\ UNCHANGED <<maze, start, goal, algorithm, exc>>

Next ==
    \/ Main
    \/ depth_first_search
    \/ breadth_first_search
    \/ a_star_search
    \/ bfs
    \/ dfs

NextTwice == Next \/ Rerun

\* Searches on mazes that meet the input contract.
Spec == Init /\ [][Next]_vars

\* The same on the smaller mazes, the search loop running on until it returns.
FairSpec == InitFair /\ [][Next]_vars /\ WF_vars(Next)

\* The script on any maze file, contract met or not.
SpecMain == InitMain /\ [][Next]_vars

\* Each search run twice on its maze.
SpecTwice == Init /\ [][NextTwice]_vars

\* ------------------------------------------------ the grid, independently
\* The Grid Model the claims speak of, stated on the maze alone: a cell is
\* passable when it lies in its row and is no wall; a route moves between
\* orthogonally adjacent passable cells.
Passable(m, cell) ==
    /\ cell[1] >= 0 /\ cell[1] < Len(m)
    /\ cell[2] >= 0 /\ cell[2] < Len(m[cell[1] + 1])
    /\ m[cell[1] + 1][cell[2] + 1] # "#"

Orthogonal(a, b) ==
    \/ a[1] = b[1] /\ Abs(a[2] - b[2]) = 1
    \/ a[2] = b[2] /\ Abs(a[1] - b[1]) = 1

\* Every position of every row of the maze.
Cells(m) == {<<r, c>> \in (0..(Len(m) - 1)) \X (0..(MaxCols + MaxAnyCols)) :
                c < Len(m[r + 1])}

StepsFrom(m, layer) ==
    {n \in Cells(m) : Passable(m, n) /\ \E c \in layer : Orthogonal(c, n)}

\* The cells some route from the cells of layer reaches.
RECURSIVE Flood(_, _, _)
Flood(m, seen, layer) ==
    IF layer = {} THEN seen
    ELSE Flood(m, seen \cup layer, StepsFrom(m, layer) \ (seen \cup layer))

\* The number of steps of a shortest route to target, the cells of layer
\* being d steps away; -1 when there is no route.
RECURSIVE StepsTo(_, _, _, _, _)
StepsTo(m, seen, layer, target, d) ==
    IF target \in layer THEN d
    ELSE IF layer = {} THEN -1
    ELSE StepsTo(m, seen \cup layer, StepsFrom(m, layer) \ (seen \cup layer), target, d + 1)

ReachableFromStart == Flood(maze, {}, {start})
ShortestDistance == StepsTo(maze, {}, {start}, goal, 0)
GoalReachable == ShortestDistance >= 0

Returned == pc \in {"found", "exhausted"}
Ended == pc \notin {"main", "search"}

\* path is a route of the maze from start to goal.
IsRoute(p) ==
    /\ Len(p) >= 1
    /\ p[1] = start
    /\ p[Len(p)] = goal
    /\ \A i \in 1..Len(p) : Passable(maze, p[i])
    /\ \A i \in 1..(Len(p) - 1) : Orthogonal(p[i], p[i + 1])

\* ------------------------------------------------------------- the claims
\* C1: whenever the goal is reachable, a_star_search returns a path whose
\* number of edges is the shortest-route distance from start to goal.
AStarReturnsShortest ==
    (algorithm = "a_star_search" /\ Ended /\ GoalReachable)
        => (pc = "found" /\ Len(path) - 1 = ShortestDistance)

\* C2: whenever the goal is reachable, both breadth-first functions (bfs, which
\* marks on enqueue, and breadth_first_search, which marks on pop) return a
\* path whose number of edges is the shortest-route distance.
BfsReturnsShortest ==
    (algorithm \in {"bfs", "breadth_first_search"} /\ Ended /\ GoalReachable)
        => (pc = "found" /\ Len(path) - 1 = ShortestDistance)

\* C2 witness: breadth_first_search returned a path of at least four edges
\* after popping some cell more than once.
BfsShortestWitness ==
    /\ algorithm = "breadth_first_search" /\ pc = "found"
    /\ nodesExplored > Cardinality(visitedNodes)
    /\ Len(path) >= 5
    /\ Len(path) - 1 = ShortestDistance

\* C3: whenever the goal is reachable, every search function returns a
\* non-empty path from start to goal whose consecutive cells are orthogonal
\* neighbours, all of them in-bounds non-wall cells.
ReturnsRoute ==
    (Ended /\ GoalReachable) => (pc = "found" /\ IsRoute(path))

\* C3 witness: depth_first_search returned a route of at least six cells in a
\* maze with a wall.
ReturnsRouteWitness ==
    /\ algorithm = "depth_first_search" /\ pc = "found"
    /\ Len(path) >= 6
    /\ \E c \in Cells(maze) : ~ Passable(maze, c)
    /\ IsRoute(path)

\* C4: whenever the goal is not reachable, every search function returns None
\* and its visited set is exactly the set of cells reachable from the start.
UnreachableReturnsNone ==
    (Ended /\ ~ GoalReachable)
        => (pc = "exhausted" /\ path = NoPath /\ visitedNodes = ReachableFromStart)

\* C4 witness: a_star_search returned None after visiting at least four cells.
UnreachableWitness ==
    /\ algorithm = "a_star_search" /\ pc = "exhausted"
    /\ ~ GoalReachable
    /\ Cardinality(visitedNodes) >= 4
    /\ visitedNodes = ReachableFromStart

\* C5: every run of every search function ends, in Found or in Exhausted.
Terminates == <>Returned

\* C5 witness: a_star_search returned after popping some cell more than once.
TerminatesWitness ==
    /\ algorithm = "a_star_search" /\ Returned
    /\ nodesExplored > Cardinality(visitedNodes)

\* The input contract the claim C6 names: a marker in the first row, a marker
\* in the last row, rows of equal length.
ViolatesContract(m) ==
    \/ Len(m) = 0
    \/ IndexOfMarker(m[1]) < 0
    \/ IndexOfMarker(m[Len(m)]) < 0
    \/ \E i, j \in DOMAIN m : Len(m[i]) # Len(m[j])

\* C6: on a maze that violates the input contract no search function ever
\* pops its frontier.
NoSearchOnInvalidMaze == ViolatesContract(maze) => nodesExplored = 0

\* C7: the expansion count never exceeds the number of cells reachable from
\* the start.
ExpansionsWithinReachable ==
    pc # "main" => nodesExplored <= Cardinality(ReachableFromStart)

\* C8: at return the expansion count is at least 1, and at least the number
\* of cells of the returned path.
ExpansionsCoverPath ==
    Returned => (nodesExplored >= 1 /\ (pc = "found" => nodesExplored >= Len(path)))

\* C8 witness: a path of at least four cells was returned with exactly as
\* many expansions as it has cells.
ExpansionsCoverPathWitness ==
    pc = "found" /\ Len(path) >= 4 /\ nodesExplored = Len(path)

NextPopped == heap[CHOOSE i \in HeapMin(heap) : TRUE][2]

\* What the iteration that is being taken pushed: the heap loses the popped
\* tuple and gains the pushed ones at its end.
Pushed == {heap'[i][2] : i \in Len(heap)..Len(heap')}

\* C10: when a_star_search expands a cell, a neighbour is pushed and its cost
\* and parent are updated exactly when it has no recorded cost or the cost of
\* the current cell + 1 is strictly lower than its recorded cost; any other
\* neighbour is not pushed and keeps its cost and parent.
AStarPushRule ==
    [][(pc = "search" /\ algorithm = "a_star_search" /\ NextPopped # goal
            /\ pc' \in {"search", "exhausted"})
        => \A n \in Range(get_valid_adjacent(maze, NextPopped)) :
             LET newCost == costPath[NextPopped] + 1
             IN  IF n \notin DOMAIN costPath \/ newCost < costPath[n]
                 THEN n \in Pushed /\ costPath'[n] = newCost /\ parent'[n] = NextPopped
                 ELSE /\ n \notin Pushed
                      /\ costPath'[n] = costPath[n]
                      /\ (n \in DOMAIN parent => parent'[n] = parent[n])
                      /\ (n \notin DOMAIN parent => n \notin DOMAIN parent')]_vars

\* C11: in a run of a_star_search the recorded cost of a cell never rises from
\* one iteration to the next, and the cost of the start stays 0.
CostNeverRises ==
    [][(pc = "search" /\ algorithm = "a_star_search")
        => /\ start \in DOMAIN costPath' /\ costPath'[start] = 0
           /\ \A n \in DOMAIN costPath :
                 n \in DOMAIN costPath' /\ costPath'[n] <= costPath[n]]_vars

\* The number of the pop that expanded cell c first.
FirstPop(c) == CHOOSE i \in DOMAIN expanded : expanded[i] = c /\ \A j \in 1..(i - 1) : expanded[j] # c

\* p runs along the parent entries from start to goal and repeats no cell.
IsParentChain(p) ==
    /\ Len(p) >= 1 /\ p[1] = start /\ p[Len(p)] = goal
    /\ \A i \in 2..Len(p) : p[i] \in DOMAIN parent /\ parent[p[i]] = p[i - 1]
    /\ \A i, j \in DOMAIN p : i # j => p[i] # p[j]

\* C12: once the goal is popped the walk along parent from the goal reaches
\* the start, never missing an entry and never cycling; the start never has a
\* parent entry; in the depth-first and breadth-first functions the recorded
\* parent of a cell was expanded before the cell's first expansion.
ParentChainIntact ==
    /\ (Ended /\ expanded # <<>> /\ expanded[Len(expanded)] = goal)
          => (pc = "found" /\ IsParentChain(path))
    /\ pc # "main" => start \notin DOMAIN parent
    /\ algorithm \in {"depth_first_search", "breadth_first_search", "bfs", "dfs"}
          => \A n \in DOMAIN parent :
                /\ parent[n] \in Range(expanded)
                /\ n \in Range(expanded) => FirstPop(parent[n]) < FirstPop(n)

\* C12 witness: breadth_first_search popped the goal after popping some cell
\* twice, and the walk along parent gave a path of at least five cells.
ParentChainWitness ==
    /\ algorithm = "breadth_first_search" /\ pc = "found"
    /\ Len(expanded) > Cardinality(Range(expanded))
    /\ Len(path) >= 5 /\ IsParentChain(path)

\* The lowest key (cost + heuristic) of the heap h.
LeastKey(h) == CHOOSE k \in {h[i][1] : i \in DOMAIN h} : \A i \in DOMAIN h : h[i][1] >= k

\* The cells of the entries of h that have the lowest key.
LeastCells(h) == {h[i][2] : i \in {j \in DOMAIN h : h[j][1] = LeastKey(h)}}

\* The cell of the earliest inserted entry of h that has the lowest key.
EarliestLeastCell(h) ==
    h[CHOOSE i \in DOMAIN h : /\ h[i][1] = LeastKey(h)
                              /\ \A j \in 1..(i - 1) : h[j][1] # LeastKey(h)][2]

\* Cell a comes before cell b by row, then by column.
CellBefore(a, b) == a[1] < b[1] \/ (a[1] = b[1] /\ a[2] < b[2])

\* The cell popped by the iteration that is being taken.
PoppedCell == expanded'[Len(expanded')]

\* C13, as claimed: a_star_search pops an entry of lowest cost + heuristic,
\* and of the entries tied on that key the one inserted earliest.
PopsEarliestOfTies ==
    [][(pc = "search" /\ algorithm = "a_star_search")
        => (currentCost' = LeastKey(heap) /\ PoppedCell = EarliestLeastCell(heap))]_vars

\* C13, as amended: a_star_search pops an entry of lowest cost + heuristic,
\* and of the entries tied on that key the one whose cell is least by row,
\* then by column, whenever it was inserted.
PopsLeastCellOfTies ==
    [][(pc = "search" /\ algorithm = "a_star_search")
        => /\ currentCost' = LeastKey(heap)
           /\ PoppedCell \in LeastCells(heap)
           /\ \A c \in LeastCells(heap) : c = PoppedCell \/ CellBefore(PoppedCell, c)]_vars

\* C13 witness: a_star_search has just popped a cell while the heap held
\* another cell with the same key, pushed in an earlier iteration; the popped
\* cell is the lesser of the two.
PopsLeastCellWitness ==
    /\ algorithm = "a_star_search" /\ pc = "search" /\ expanded # <<>>
    /\ \E i \in DOMAIN heap :
          /\ heap[i][1] = currentCost
          /\ heap[i][2] # expanded[Len(expanded)]
          /\ parent[heap[i][2]] # expanded[Len(expanded)]
          /\ CellBefore(expanded[Len(expanded)], heap[i][2])

\* C14: in a run of a_star_search no read of costPath misses its key: every
\* cell that can be popped (every cell of the heap) and every cell of
\* visitedNodes, whose cost the admission test reads, has an entry, and no
\* KeyError is raised.
CostReadsDefined ==
    algorithm = "a_star_search"
        => /\ exc # "KeyError" /\ pc # "error"
           /\ \A i \in DOMAIN heap : heap[i][2] \in DOMAIN costPath
           /\ visitedNodes \subseteq DOMAIN costPath

\* C14 witness: a_star_search has expanded a cell at least two steps from the
\* start, reading its cost and that of a neighbour already in visitedNodes,
\* and goes on.
CostReadsWitness ==
    /\ algorithm = "a_star_search" /\ pc = "search" /\ exc = ""
    /\ Len(expanded) >= 3
    /\ LET c == expanded[Len(expanded)]
       IN  /\ c \in DOMAIN costPath /\ costPath[c] >= 2
           /\ \E n \in Range(get_valid_adjacent(maze, c)) :
                 n \in visitedNodes /\ n \in DOMAIN costPath

====
